---- MODULE Spec2Model ----
(***************************************************************************)
(* Model of src/data_tools.py: the two simultaneous-fit routines           *)
(* (i_sense_fit_simultaneous, di_fit_simultaneous) and get_subset.         *)
(*                                                                         *)
(* Real quantities are held as integers in thousandths (0.2 is 200).       *)
(* An array is a record [ndim, data]: data is the sequence of its rows, a  *)
(* 1-D array holds its single run of samples as data[1].  Python indices   *)
(* are 0-based and kept so; sequences are read at index + 1.               *)
(*                                                                         *)
(* The optimizers (lmfit.minimize, scipy curve_fit) are outside the        *)
(* repository: a solve either raises or returns, for every free parameter, *)
(* some value inside its box (here its lower bound, its initial value or   *)
(* its upper bound, picked per dataset), keeps a non-varying parameter at  *)
(* its value and gives a parameter with an expression the value of the     *)
(* parameter the expression names.                                         *)
(***************************************************************************)
EXTENDS Integers, Sequences, FiniteSets, TLC

\* ------------------------------------------------------------- bounds
MaxN == 2
MaxM == 3

\* ------------------------------------------------- program constants
BetaMin == 200
BetaMax == 10000
I0Min == 1
I0Max == 10000
I1Init == 100
I1Min == 0
I1Max == 10000
I2Min == 0
I2Max == 20000
Di0Min == 0
Di0Max == 500
Di2MinJoint == -10
Di2MaxJoint == 10
Di2MinIndep == -50
Di2MaxIndep == 50
DeltaInit == 0
DeltaMin == -2000
DeltaMax == 2000

\* a value outside every input set, standing for not-a-number
NaN == 0 - 999999

\* ------------------------------------------------------ python helpers
RECURSIVE Factorial(_)
Factorial(k) == IF k <= 1 THEN 1 ELSE k * Factorial(k - 1)

Abs(v) == IF v < 0 THEN 0 - v ELSE v

RECURSIVE SeqSum(_)
SeqSum(s) == IF s = <<>> THEN 0 ELSE Head(s) + SeqSum(Tail(s))

SeqMax(s) == CHOOSE v \in {s[k] : k \in DOMAIN s} : \A k \in DOMAIN s : s[k] <= v
SeqMin(s) == CHOOSE v \in {s[k] : k \in DOMAIN s} : \A k \in DOMAIN s : v <= s[k]
\* ndarray.mean(): the inputs are multiples of every window length, so the
\* quotient is exact
SeqMean(s) == SeqSum(s) \div Len(s)

\* a[k] with a negative k counted from the end
PyIndex(k, len) == IF k < 0 THEN k + len ELSE k

Clamp(v, lo, hi) == IF v < lo THEN lo ELSE IF v > hi THEN hi ELSE v

\* a[lo:hi]
Slice(row, lo, hi) ==
    LET len   == Len(row)
        start == Clamp(PyIndex(lo, len), 0, len)
        stop  == Clamp(PyIndex(hi, len), 0, len)
    IN  IF stop <= start THEN <<>> ELSE SubSeq(row, start + 1, stop)

\* np.abs(row - t), not-a-number entries staying not-a-number
AbsDiff(row, t) == [k \in DOMAIN row |-> IF row[k] = NaN THEN NaN ELSE Abs(row[k] - t)]

AllNaN(row) == \A k \in DOMAIN row : row[k] = NaN

\* np.nanargmin: the first 0-based index of the smallest entry that is a number
NanArgMin(d) ==
    LET ok == {k \in DOMAIN d : d[k] # NaN}
        best == CHOOSE k \in ok : \A j \in ok : d[k] < d[j] \/ (d[k] = d[j] /\ k <= j)
    IN  best - 1

\* np.tile(x, (n, 1)) of a 1-D array or of a one-row 2-D array
Tile(a, rows) == [ndim |-> 2, data |-> [i \in 1 .. rows |-> a.data[1]]]

\* ----------------------------------------------------------- the models
ISenseColumns == <<"x0", "beta", "i0", "i1", "i2">>
DiColumns == <<"x0", "beta", "di0", "di2", "delta">>

Columns(c) == IF c = "i_sense_fit_simultaneous" THEN ISenseColumns ELSE DiColumns
ColumnSet(c) == {Columns(c)[k] : k \in 1 .. Len(Columns(c))}

\* a directive (constrain, fix) or span, omitted (None) or given
Omitted == [given |-> FALSE, roles |-> {}]
Given(rs) == [given |-> TRUE, roles |-> rs]
NoSpan == [given |-> FALSE, val |-> 0]
SpanOf(v) == [given |-> TRUE, val |-> v]

\* python truth of `if(constrain)`, `if(fix)`: None and the empty list are false
Truthy(d) == d.given /\ d.roles # {}
\* python truth of `if(span)`: None and 0 are false
SpanTruthy(s) == s.given /\ s.val # 0

VARIABLES
    call,          \* the function invoked
    pc,            \* position in it: start, window, fit, constrain, solve, done, error
    err,           \* the exception that ended the call, "none" otherwise
    x, y, z,       \* the caller's arrays (y is data[1] of get_subset)
    centers, widths, x0bounds, constrain, fix, span,
    bounds,        \* get_subset's bounds argument
    n, m,          \* locals n, m
    xx,            \* the local x after np.tile
    ilow, ihigh,   \* locals ilow, ihigh
    fit_params,    \* the lmfit Parameters: one group per dataset
    guess,         \* the independent path's p0 and bounds, one per dataset
    fitdata,       \* the samples of z the optimizer was given, one run per dataset
    popt,          \* what the optimizer returned, one vector per dataset
    df,            \* the result table
    loop,          \* the independent path's loop variable i
    minimizeCalls, curveFitCalls,
    subset         \* what get_subset returned

vars == <<call, pc, err, x, y, z, centers, widths, x0bounds, constrain, fix, span,
          bounds, n, m, xx, ilow, ihigh, fit_params, guess, fitdata, popt, df, loop,
          minimizeCalls, curveFitCalls, subset>>

inputs == <<call, x, y, centers, widths, x0bounds, constrain, fix, span, bounds>>

\* ------------------------------------------------------------- inputs
FitCalls == {"i_sense_fit_simultaneous", "di_fit_simultaneous"}

\* samples are multiples of every window length up to MaxM (and of 2)
ZStep == 2 * Factorial(MaxM)

ZPatterns == {"ramp", "lastpeak", "neg"}

\* dataset i (0-based) of mm samples
ZRow(p, i, mm) ==
    [j \in 1 .. mm |->
        CASE p = "ramp" -> (i + j - 1) * ZStep
          [] p = "lastpeak" -> IF j = mm THEN 4 * ZStep * (i + 1) ELSE (j - 1) * ZStep
          [] OTHER -> 0 - j * ZStep]

ZArray(nd, nn, mm, p) ==
    IF nd = 2 THEN [ndim |-> 2, data |-> [i \in 1 .. nn |-> ZRow(p, i - 1, mm)]]
    ELSE [ndim |-> nd, data |-> <<ZRow(p, 0, mm)>>]

XRowKinds == {"asc", "desc", "unsorted", "ties", "nan", "allnan"}

\* one row of x of mm samples
XRow(k, i, mm) ==
    [j \in 1 .. mm |->
        CASE k = "asc" -> i + j - 1
          [] k = "desc" -> i + mm - j
          [] k = "unsorted" -> IF j = 1 THEN i + 1 ELSE IF j = 2 THEN i ELSE i + j - 1
          [] k = "ties" -> (i + j) \div 2
          [] k = "nan" -> IF j = 1 \/ j = mm THEN NaN ELSE i + j - 1
          [] OTHER -> NaN]

XShapes == {"1d", "one", "each", "bad"}

\* x for nn datasets: 1-D, a single row, one row per dataset, one row too many
XArray(shape, k, nn, mm) ==
    CASE shape = "1d" -> [ndim |-> 1, data |-> <<XRow(k, 0, mm)>>]
      [] shape = "one" -> [ndim |-> 2, data |-> <<XRow(k, 0, mm)>>]
      [] shape = "each" -> [ndim |-> 2, data |-> [i \in 1 .. nn |-> XRow(k, i - 1, mm)]]
      [] OTHER -> [ndim |-> 2, data |-> [i \in 1 .. nn + 1 |-> XRow(k, i - 1, mm)]]

\* the caller's estimates: equal centers, one center per sample position with
\* a first width below the box, centers beyond x0bounds
GuessKinds == {"equal", "distinct", "far"}
CentersOf(k, nn) ==
    [i \in 1 .. nn |->
        CASE k = "equal" -> 1
          [] k = "distinct" -> i - 1
          [] OTHER -> MaxM + MaxN + i]

WidthsOf(k, nn) == [i \in 1 .. nn |-> IF k = "distinct" THEN 100 * i ELSE 1000]

X0Bounds == <<0, MaxM + MaxN>>

ConstrainSets(c) ==
    IF c = "i_sense_fit_simultaneous"
    THEN {Omitted, Given({}), Given({"x0"}), Given({"beta", "i1"})}
    ELSE {Omitted, Given({}), Given({"x0"}), Given({"beta", "di2"})}

FixSets(c) ==
    IF c = "i_sense_fit_simultaneous"
    THEN {Omitted}
    ELSE {Omitted, Given({}), Given({"x0"}), Given({"di2", "delta"})}

NoArray == [ndim |-> 0, data |-> <<>>]
NoTable == [columns |-> <<>>, index |-> <<>>, rows |-> <<>>]

\* the state at entry of a call: nothing computed yet
Entry ==
    /\ pc = "start"
    /\ err = "none"
    /\ n = 0
    /\ m = 0
    /\ xx = NoArray
    /\ ilow = <<>>
    /\ ihigh = <<>>
    /\ fit_params = <<>>
    /\ guess = <<>>
    /\ fitdata = <<>>
    /\ popt = <<>>
    /\ df = NoTable
    /\ loop = 0
    /\ minimizeCalls = 0
    /\ curveFitCalls = 0
    /\ subset = <<>>

\* a call of one of the two fit functions on ascending x
Init ==
    \E c \in FitCalls, nd \in 1 .. 3, nn \in 1 .. MaxN, mm \in 2 .. MaxM,
       zp \in ZPatterns, xs \in XShapes, gk \in GuessKinds,
       sp \in {NoSpan, SpanOf(1), SpanOf(MaxM)} :
      \E cs \in ConstrainSets(c), fx \in FixSets(c) :
        /\ nd # 2 => nn = 1
        /\ call = c
        /\ z = ZArray(nd, nn, mm, zp)
        /\ x = XArray(xs, "asc", nn, mm)
        /\ y = NoArray
        /\ centers = CentersOf(gk, nn)
        /\ widths = WidthsOf(gk, nn)
        /\ x0bounds = X0Bounds
        /\ constrain = cs
        /\ fix = fx
        /\ span = sp
        /\ bounds = <<>>
        /\ Entry

\* ------------------------------------------- the fit functions, by phase
Raise(e) ==
    /\ pc' = "error"
    /\ err' = e

\* z.ndim == 1: z.shape = (1, len(z)), set on the caller's array itself
Reshape(a) == [a EXCEPT !.ndim = 2]

\* `x.ndim==1 or x.shape[0]==1`: x is shared and tiled
XShared == x.ndim = 1 \/ Len(x.data) = 1

\* a faulty variant: at least one row per dataset is accepted
XPerDatasetLoose(nn) == Len(x.data) >= nn
\* `x.shape[0]==n`: x has one row per dataset
XPerDataset(nn) == Len(x.data) = nn

\* the dimensions of z and the shape of x
Validate ==
    /\ pc = "start"
    /\ call \in FitCalls
    /\ IF z.ndim \notin {1, 2}
       THEN /\ Raise("ValueError")
            /\ UNCHANGED <<z, n, m, xx>>
       ELSE LET nn == IF z.ndim = 1 THEN 1 ELSE Len(z.data)
                mm == Len(z.data[1])
            IN  /\ z' = IF z.ndim = 1 THEN Reshape(z) ELSE z
                /\ n' = nn
                /\ m' = mm
                /\ IF XShared
                   THEN /\ xx' = Tile(x, nn)
                        /\ pc' = "window"
                        /\ err' = err
                   ELSE IF XPerDataset(nn)
                   THEN /\ xx' = x
                        /\ pc' = "window"
                        /\ err' = err
                   ELSE /\ Raise("ValueError")
                        /\ xx' = xx
    /\ UNCHANGED <<inputs, ilow, ihigh, fit_params, guess, fitdata, popt, df, loop,
                   minimizeCalls, curveFitCalls, subset>>

\* a faulty variant: every dataset is looked up in the first row
NearestFirstRow(i, t) == NanArgMin(AbsDiff(xx.data[1], t))
\* the nearest index of row i of the local x to target t
Nearest(i, t) == NanArgMin(AbsDiff(xx.data[i], t))

WindowLow(i) == IF SpanTruthy(span) THEN Nearest(i, centers[i] - span.val) ELSE 0
WindowHigh(i) == IF SpanTruthy(span) THEN Nearest(i, centers[i] + span.val) ELSE 0 - 1

\* ilow, ihigh
ComputeWindow ==
    /\ pc = "window"
    /\ IF SpanTruthy(span) /\ \E i \in 1 .. n : AllNaN(xx.data[i])
       THEN /\ Raise("ValueError")
            /\ UNCHANGED <<ilow, ihigh, df>>
       ELSE /\ ilow' = [i \in 1 .. n |-> WindowLow(i)]
            /\ ihigh' = [i \in 1 .. n |-> WindowHigh(i)]
            /\ df' = [columns |-> Columns(call), index |-> <<>>, rows |-> <<>>]
            /\ pc' = "fit"
            /\ err' = err
    /\ UNCHANGED <<inputs, z, n, m, xx, fit_params, guess, fitdata, popt, loop,
                   minimizeCalls, curveFitCalls, subset>>


\* ------------------------------------------------------ initial guesses
\* z[i, ilow[i]:ihigh[i]] and x[i, ilow[i]:ihigh[i]] (i counts from 1 here)
ZWindow(i) == Slice(z.data[i], ilow[i], ihigh[i])
XWindow(i) == Slice(xx.data[i], ilow[i], ihigh[i])

\* z[i, k]
ZAt(i, k) == z.data[i][PyIndex(k, Len(z.data[i])) + 1]

\* abs(z[i,ilow[i]:ihigh[i]].max() - z[i,ilow[i]:ihigh[i]].min())
I0Guess(i) == Abs(SeqMax(ZWindow(i)) - SeqMin(ZWindow(i)))
\* z[i,ilow[i]:ihigh[i]].mean()
I2Guess(i) == SeqMean(ZWindow(i))
\* max(abs(z[i,ilow[i]:ihigh[i]].min()), abs(z[i,ilow[i]:ihigh[i]].max()))
Di0Guess(i) ==
    LET a == Abs(SeqMin(ZWindow(i)))
        b == Abs(SeqMax(ZWindow(i)))
    IN  IF a >= b THEN a ELSE b
\* (z[i,ilow[i]] + z[i,ihigh[i]]) / 2.0
Di2Guess(i) == (ZAt(i, ilow[i]) + ZAt(i, ihigh[i])) \div 2

\* ------------------------------------------------------- the joint path
\* lmfit Parameters.add(name, value, min, max): the value is held inside the box
Param(value, lo, hi) ==
    [value |-> Clamp(value, lo, hi), min |-> lo, max |-> hi, vary |-> TRUE, expr |-> {}]

\* the parameter group of dataset i of the sensor-current model
ISenseGroup(i) ==
    [x0   |-> Param(centers[i], x0bounds[1], x0bounds[2]),
     beta |-> Param(widths[i], BetaMin, BetaMax),
     i0   |-> Param(I0Guess(i), I0Min, I0Max),
     i1   |-> Param(I1Init, I1Min, I1Max),
     i2   |-> Param(I2Guess(i), I2Min, I2Max)]

\* the parameter group of dataset i of the weak-localization model
DiGroup(i) ==
    [x0    |-> Param(centers[i], x0bounds[1], x0bounds[2]),
     beta  |-> Param(widths[i], BetaMin, BetaMax),
     di0   |-> Param(Di0Guess(i), Di0Min, Di0Max),
     di2   |-> Param(Di2Guess(i), Di2MinJoint, Di2MaxJoint),
     delta |-> Param(DeltaInit, DeltaMin, DeltaMax)]

Group(i) == IF call = "i_sense_fit_simultaneous" THEN ISenseGroup(i) ELSE DiGroup(i)

\* a faulty variant: fix alone does not select the joint path
JointPathConstrainOnly == Truthy(constrain)
\* `if(constrain):` of i_sense_fit_simultaneous, `if(constrain or fix):` of
\* di_fit_simultaneous
JointPath ==
    IF call = "i_sense_fit_simultaneous"
    THEN Truthy(constrain)
    ELSE Truthy(constrain) \/ Truthy(fix)

\* the loop creating one parameter group per dataset
BuildParams ==
    /\ pc = "fit"
    /\ JointPath
    /\ IF \E i \in 1 .. n : ZWindow(i) = <<>>
       THEN /\ Raise("ValueError")
            /\ UNCHANGED fit_params
       ELSE /\ fit_params' = [i \in 1 .. n |-> Group(i)]
            /\ pc' = "constrain"
            /\ err' = err
    /\ UNCHANGED <<inputs, z, n, m, xx, ilow, ihigh, guess, fitdata, popt, df, loop,
                   minimizeCalls, curveFitCalls, subset>>

\* a faulty variant: the expression names the parameter's own dataset
ExprTargetSelf(p, i) == <<p, i>>
\* the parameter an equality expression on (role p, dataset i) names: p_0
ExprTarget(p, i) == <<p, 0>>

\* fit_params[p_i].expr = p_0 for i in 1..n-1 (setting an expression stops the
\* parameter varying)
Constrained(params, roles) ==
    [i \in 1 .. n |->
        [r \in DOMAIN params[i] |->
            IF r \in roles /\ i > 1
            THEN [params[i][r] EXCEPT !.expr = {ExprTarget(r, i - 1)}, !.vary = FALSE]
            ELSE params[i][r]]]

\* a faulty variant: only dataset 0's parameter stops varying
FixedFirstOnly(params, roles) ==
    [i \in 1 .. n |->
        [r \in DOMAIN params[i] |->
            IF r \in roles /\ i = 1 THEN [params[i][r] EXCEPT !.vary = FALSE]
            ELSE params[i][r]]]
\* fit_params[p_i].vary = False for i in 0..n-1
Fixed(params, roles) ==
    [i \in 1 .. n |->
        [r \in DOMAIN params[i] |->
            IF r \in roles THEN [params[i][r] EXCEPT !.vary = FALSE] ELSE params[i][r]]]

\* the roles the two directive loops run over
ConstrainRoles == IF Truthy(constrain) THEN constrain.roles ELSE {}
FixRoles == IF call = "di_fit_simultaneous" /\ Truthy(fix) THEN fix.roles ELSE {}

\* the constrain loop, then (weak-localization model) the fix loop
ApplyConstraints ==
    /\ pc = "constrain"
    /\ IF \/ (n > 1 /\ ~(ConstrainRoles \subseteq ColumnSet(call)))
          \/ ~(FixRoles \subseteq ColumnSet(call))
       THEN /\ Raise("KeyError")
            /\ UNCHANGED fit_params
       ELSE /\ fit_params' = Fixed(Constrained(fit_params, ConstrainRoles), FixRoles)
            /\ pc' = "solve"
            /\ err' = err
    /\ UNCHANGED <<inputs, z, n, m, xx, ilow, ihigh, guess, fitdata, popt, df, loop,
                   minimizeCalls, curveFitCalls, subset>>

\* what a solve may return for a free parameter
Picks == {"min", "init", "max"}
PickValue(pk, value, lo, hi) ==
    CASE pk = "min" -> lo
      [] pk = "max" -> hi
      [] OTHER -> value

\* the value of a parameter that carries no expression
OwnValue(params, picks, i, r) ==
    LET q == params[i][r]
    IN  IF q.vary THEN PickValue(picks[i], q.value, q.min, q.max) ELSE q.value

\* m.params.valuesdict(): an expression is evaluated on the parameter it names
ValuesDict(params, picks) ==
    [i \in 1 .. n |->
        [r \in DOMAIN params[i] |->
            IF params[i][r].expr = {}
            THEN OwnValue(params, picks, i, r)
            ELSE LET t == CHOOSE e \in params[i][r].expr : TRUE
                 IN  OwnValue(params, picks, t[2] + 1, t[1])]]

\* df.loc[label] = row
SetLoc(table, label, row) ==
    IF \E k \in DOMAIN table.index : table.index[k] = label
    THEN [table EXCEPT !.rows =
            [k \in DOMAIN table.rows |-> IF table.index[k] = label THEN row ELSE table.rows[k]]]
    ELSE [table EXCEPT !.index = Append(table.index, label), !.rows = Append(table.rows, row)]

\* [valdict[c_i] for c in columns]
RowOf(valdict, i) == [k \in 1 .. Len(df.columns) |-> valdict[i][df.columns[k]]]

\* a faulty variant: every row is written under label 0
RowLabelZero(i) == 0
\* the label of the row written for dataset i (i counts from 1, labels from 0)
RowLabel(i) == i - 1

RECURSIVE Tabulate(_, _, _)
\* for i in range(n): df.loc[i] = ...
Tabulate(table, valdict, i) ==
    IF i > n THEN table
    ELSE Tabulate(SetLoc(table, RowLabel(i), RowOf(valdict, i)), valdict, i + 1)

\* minimize(objective, fit_params, args=(x, z, ilow, ihigh)) and the read-back
JointSolve ==
    /\ pc = "solve"
    /\ minimizeCalls' = minimizeCalls + 1
    /\ fitdata' = [i \in 1 .. n |-> ZWindow(i)]
    /\ \/ /\ Raise("SolverError")
          /\ UNCHANGED <<popt, df>>
       \/ \E picks \in [1 .. n -> Picks] :
            /\ popt' = ValuesDict(fit_params, picks)
            /\ df' = Tabulate(df, popt', 1)
            /\ pc' = "done"
            /\ err' = err
    /\ UNCHANGED <<inputs, z, n, m, xx, ilow, ihigh, fit_params, guess, loop,
                   curveFitCalls, subset>>

\* ------------------------------------------------- the independent path
ISenseGuess(i) ==
    [p0 |-> <<centers[i], widths[i], I0Guess(i), I1Init, I2Guess(i)>>,
     lo |-> <<x0bounds[1], BetaMin, I0Min, I1Min, I2Min>>,
     hi |-> <<x0bounds[2], BetaMax, I0Max, I1Max, I2Max>>]

DiGuess(i) ==
    [p0 |-> <<centers[i], widths[i], Di0Guess(i), Di2Guess(i), DeltaInit>>,
     lo |-> <<x0bounds[1], BetaMin, Di0Min, Di2MinIndep, DeltaMin>>,
     hi |-> <<x0bounds[2], BetaMax, Di0Max, Di2MaxIndep, DeltaMax>>]

Guess(i) == IF call = "i_sense_fit_simultaneous" THEN ISenseGuess(i) ELSE DiGuess(i)

\* curve_fit refuses a p0 outside the bounds and data that is not finite
Feasible(g) == \A k \in DOMAIN g.p0 : g.lo[k] <= g.p0[k] /\ g.p0[k] <= g.hi[k]
Finite(row) == \A k \in DOMAIN row : row[k] # NaN

\* one pass of `for i in range(n)`: p0, bounds, curve_fit, df.loc[i]
IndependentFit ==
    /\ pc = "fit"
    /\ ~JointPath
    /\ LET i == loop + 1
       IN  IF ZWindow(i) = <<>>
           THEN /\ Raise("ValueError")
                /\ UNCHANGED <<guess, fitdata, popt, df, loop, curveFitCalls>>
           ELSE /\ guess' = Append(guess, Guess(i))
                /\ fitdata' = Append(fitdata, ZWindow(i))
                /\ curveFitCalls' = curveFitCalls + 1
                /\ IF ~Feasible(Guess(i)) \/ ~Finite(XWindow(i))
                   THEN /\ Raise("ValueError")
                        /\ UNCHANGED <<popt, df, loop>>
                   ELSE \/ /\ Raise("RuntimeError")
                           /\ UNCHANGED <<popt, df, loop>>
                        \/ \E pk \in Picks :
                             LET g == Guess(i)
                                 v == [k \in DOMAIN g.p0 |->
                                          PickValue(pk, g.p0[k], g.lo[k], g.hi[k])]
                             IN  /\ popt' = Append(popt, v)
                                 /\ df' = SetLoc(df, RowLabel(i), v)
                                 /\ loop' = loop + 1
                                 /\ pc' = IF loop + 1 = n THEN "done" ELSE "fit"
                                 /\ err' = err
    /\ UNCHANGED <<inputs, z, n, m, xx, ilow, ihigh, fit_params, minimizeCalls, subset>>

Next == Validate \/ ComputeWindow \/ BuildParams \/ ApplyConstraints \/ JointSolve
            \/ IndependentFit

Spec == Init /\ [][Next]_vars

\* a call of one of the two fit functions on x rows of every kind, to exercise
\* the window
InitWindow ==
    \E c \in FitCalls, nn \in 1 .. MaxN, mm \in 2 .. MaxM, xk \in XRowKinds,
       xs \in {"1d", "each"}, gk \in GuessKinds,
       sp \in {NoSpan, SpanOf(0), SpanOf(1), SpanOf(MaxM + MaxN)},
       cs \in {Omitted, Given({"beta"})} :
        /\ call = c
        /\ z = ZArray(2, nn, mm, "ramp")
        /\ x = XArray(xs, xk, nn, mm)
        /\ y = NoArray
        /\ centers = CentersOf(gk, nn)
        /\ widths = WidthsOf(gk, nn)
        /\ x0bounds = X0Bounds
        /\ constrain = cs
        /\ fix = Omitted
        /\ span = sp
        /\ bounds = <<>>
        /\ Entry

SpecWindow == InitWindow /\ [][Next]_vars

\* ----------------------------------------------------------- get_subset
\* one entry of bounds: None or a number
NoBound == [given |-> FALSE, val |-> 0]
BoundOf(v) == [given |-> TRUE, val |-> v]
BoundVals == {NoBound} \cup {BoundOf(v) : v \in 0 .. MaxM - 1}

\* [data[0][0], data[0][-1], data[1][0], data[1][-1]]
Extent ==
    <<x.data[1][1], x.data[1][Len(x.data[1])], y.data[1][1], y.data[1][Len(y.data[1])]>>

\* [b if b else extent[i] for i,b in enumerate(bounds)]: None and 0 are false
Bs == [k \in DOMAIN bounds |->
          IF bounds[k].given /\ bounds[k].val # 0 THEN bounds[k].val ELSE Extent[k]]

\* what `raise NotImplemented(...)` raises: NotImplemented is a constant, not an
\* exception class, and calling it is a TypeError
RaiseNotImplemented == "TypeError"

\* z[iy0:iy1, ix0:ix1]
SubArray(a, iy0, iy1, ix0, ix1) ==
    LET picked == Slice(a.data, iy0, iy1)
    IN  [ndim |-> 2, data |-> [k \in DOMAIN picked |-> Slice(picked[k], ix0, ix1)]]

get_subset ==
    /\ pc = "start"
    /\ call = "get_subset"
    /\ IF Len(bounds) # 2 * z.ndim
       THEN /\ Raise("ValueError")
            /\ UNCHANGED subset
       ELSE IF z.ndim = 2
       THEN LET ix0 == NanArgMin(AbsDiff(x.data[1], Bs[1]))
                ix1 == NanArgMin(AbsDiff(x.data[1], Bs[2]))
                iy0 == NanArgMin(AbsDiff(y.data[1], Bs[3]))
                iy1 == NanArgMin(AbsDiff(y.data[1], Bs[4]))
            IN  /\ subset' = <<Slice(x.data[1], ix0, ix1), Slice(y.data[1], iy0, iy1),
                               SubArray(z, iy0, iy1, ix0, ix1)>>
                /\ pc' = "done"
                /\ err' = err
       ELSE /\ Raise(RaiseNotImplemented)
            /\ UNCHANGED subset
    /\ UNCHANGED <<inputs, z, n, m, xx, ilow, ihigh, fit_params, guess, fitdata, popt,
                   df, loop, minimizeCalls, curveFitCalls>>

\* a call of get_subset on data = (x, y, z)
InitSubset ==
    \E nd \in 1 .. 2, nn \in 1 .. MaxN, mm \in 2 .. MaxM, len \in 2 .. 4 :
      \E bs \in [1 .. len -> BoundVals] :
        /\ call = "get_subset"
        /\ z = ZArray(nd, nn, mm, "ramp")
        /\ x = XArray("1d", "asc", 1, mm)
        /\ y = XArray("1d", "asc", 1, nn)
        /\ centers = <<>>
        /\ widths = <<>>
        /\ x0bounds = <<>>
        /\ constrain = Omitted
        /\ fix = Omitted
        /\ span = NoSpan
        /\ bounds = bs
        /\ Entry

NextSubset == get_subset
SpecSubset == InitSubset /\ [][NextSubset]_vars

\* ================================================================ claims
\* the value of column r in row i of the result table (i counts from 1)
Cell(i, r) ==
    LET k == CHOOSE j \in DOMAIN df.columns : df.columns[j] = r
    IN  df.rows[i][k]

Returned == call \in FitCalls /\ pc = "done"

\* the row of x that belongs to dataset i, as the caller passed it
OwnRow(i) == IF x.ndim = 1 \/ Len(x.data) = 1 THEN x.data[1] ELSE x.data[i]

\* the amplitude statistic of a run of samples, per model
AmplitudeOf(row) ==
    IF call = "i_sense_fit_simultaneous"
    THEN Abs(SeqMax(row) - SeqMin(row))
    ELSE IF Abs(SeqMin(row)) >= Abs(SeqMax(row)) THEN Abs(SeqMin(row)) ELSE Abs(SeqMax(row))

\* C1: with span omitted the window of every dataset is the whole row: ilow[i] = 0,
\* ihigh[i] designates the last sample, and all m samples of z[i], the last one
\* included, enter the initial-guess statistics and the fit, on both paths.
C1_FullRowWindow ==
    (Returned /\ ~SpanTruthy(span)) =>
        \A i \in 1 .. n :
            /\ ilow[i] = 0
            /\ PyIndex(ihigh[i], m) = m - 1
            /\ fitdata[i] = z.data[i]
            /\ IF JointPath
               THEN LET q == fit_params[i][df.columns[3]]
                    IN  q.value = Clamp(AmplitudeOf(z.data[i]), q.min, q.max)
               ELSE guess[i].p0[3] = AmplitudeOf(z.data[i])

\* C2 as stated: in di_fit_simultaneous every role named in fix keeps, in output
\* row i, the initial value built for dataset i's own group, whatever constrain says.
C2_FixedKeepsOwnInitial ==
    (Returned /\ call = "di_fit_simultaneous" /\ Truthy(fix)) =>
        \A r \in fix.roles : \A i \in 1 .. n :
            Cell(i, r) = fit_params[i][r].value

\* C2 amended: a role named in fix keeps, in output row i, the initial value built
\* for dataset i's own group when constrain does not name it, and the initial value
\* built for dataset 0's group, in every row, when constrain names it too.
C2_FixedKeepsInitial ==
    (Returned /\ call = "di_fit_simultaneous" /\ Truthy(fix)) =>
        \A r \in fix.roles : \A i \in 1 .. n :
            Cell(i, r) = IF constrain.given /\ r \in constrain.roles
                         THEN fit_params[1][r].value
                         ELSE fit_params[i][r].value

C2_Witness ==
    /\ Returned
    /\ call = "di_fit_simultaneous"
    /\ n > 1
    /\ "x0" \in fix.roles
    /\ constrain.given /\ "x0" \in constrain.roles
    /\ fit_params[1]["x0"].value # fit_params[2]["x0"].value
    /\ Cell(2, "x0") = fit_params[1]["x0"].value
    /\ Cell(1, "beta") # fit_params[1]["beta"].value

\* C3: on the joint path, parameter (role, i) for i in 1..n-1 carries an equality
\* expression naming exactly (role, 0) when constrain names the role, no parameter
\* of another role (and none of dataset 0) carries an expression, and after the
\* solve a constrained role has the same value in all n output rows.
C3_ConstrainTiesToGroupZero ==
    (call \in FitCalls /\ JointPath /\ pc \in {"solve", "done"}) =>
        /\ Len(fit_params) = n
        /\ \A i \in 1 .. n : \A r \in DOMAIN fit_params[i] :
              fit_params[i][r].expr =
                  IF constrain.given /\ r \in constrain.roles /\ i > 1
                  THEN {<<r, 0>>} ELSE {}
        /\ pc = "done" =>
              \A r \in constrain.roles : \A i \in 1 .. n : Cell(i, r) = Cell(1, r)

C3_Witness ==
    /\ Returned
    /\ n > 1
    /\ Truthy(constrain)
    /\ \E r \in constrain.roles : fit_params[2][r].value # fit_params[1][r].value
    /\ \E r \in DOMAIN fit_params[1] : Cell(1, r) # Cell(2, r)

\* z has a number of dimensions other than 1 or 2
BadZ == z.ndim \notin {1, 2}
\* x has more than one row, and not one row per row of z
BadX == x.ndim = 2 /\ Len(x.data) > 1 /\ Len(x.data) # Len(z.data)

\* C4: an input with a z of other than 1 or 2 dimensions, or an x of more than one
\* row whose row count differs from z's, ends in a ValueError with no window
\* computed, no parameter built, no optimizer invoked and no table made.
C4_ShapeRejectedFirst ==
    (call \in FitCalls /\ pc # "start" /\ (BadZ \/ BadX)) =>
        /\ pc = "error"
        /\ err = "ValueError"
        /\ ilow = <<>> /\ ihigh = <<>>
        /\ fit_params = <<>> /\ guess = <<>> /\ fitdata = <<>>
        /\ minimizeCalls = 0 /\ curveFitCalls = 0
        /\ df = NoTable

C4_Witness ==
    /\ call \in FitCalls
    /\ pc = "error"
    /\ err = "ValueError"
    /\ ~BadZ
    /\ BadX
    /\ Len(z.data) > 1

\* C5: a returned table has exactly n rows, row i at position i under label i
\* holding what the optimizer returned for dataset i, and the columns of the model
\* in order.
C5_OneRowPerDataset ==
    Returned =>
        /\ df.columns = IF call = "i_sense_fit_simultaneous"
                        THEN <<"x0", "beta", "i0", "i1", "i2">>
                        ELSE <<"x0", "beta", "di0", "di2", "delta">>
        /\ Len(df.rows) = n
        /\ df.index = [i \in 1 .. n |-> i - 1]
        /\ \A i \in 1 .. n :
              /\ Len(df.rows[i]) = 5
              /\ \A k \in 1 .. 5 :
                    df.rows[i][k] = IF minimizeCalls > 0
                                    THEN popt[i][df.columns[k]]
                                    ELSE popt[i][k]

C5_Witness ==
    /\ Returned
    /\ n > 1
    /\ curveFitCalls = n
    /\ df.rows[1] # df.rows[2]

\* no constraint directive is requested
NoDirective ==
    IF call = "i_sense_fit_simultaneous"
    THEN ~constrain.given \/ constrain.roles = {}
    ELSE (~constrain.given \/ constrain.roles = {}) /\ (~fix.given \/ fix.roles = {})

\* C6: the per-dataset path is taken exactly when no directive is requested (i_sense:
\* constrain omitted or empty; di: constrain and fix both omitted or empty): then no
\* parameter set is built and minimize is never called, and a returned call made one
\* curve_fit per dataset; otherwise curve_fit is never called, minimize at most once,
\* and a returned call made exactly one minimize over all n groups.
C6_PathByDirective ==
    call \in FitCalls =>
        IF NoDirective
        THEN /\ minimizeCalls = 0
             /\ fit_params = <<>>
             /\ pc = "done" => curveFitCalls = n
        ELSE /\ curveFitCalls = 0
             /\ guess = <<>>
             /\ minimizeCalls <= 1
             /\ pc = "done" => (minimizeCalls = 1 /\ Len(fit_params) = n)

C6_Witness ==
    /\ Returned
    /\ call = "di_fit_simultaneous"
    /\ ~Truthy(constrain)
    /\ Truthy(fix)
    /\ n > 1
    /\ minimizeCalls = 1

\* index k (0-based) of row is a number nearest to t among the numbers of row
IsNearest(row, k, t) ==
    /\ k \in 0 .. Len(row) - 1
    /\ row[k + 1] # NaN
    /\ \A j \in DOMAIN row : row[j] # NaN => Abs(row[k + 1] - t) <= Abs(row[j] - t)

\* centers[i] - span lies below, centers[i] + span above, every number of the row
Saturated(i) ==
    \A j \in DOMAIN OwnRow(i) :
        OwnRow(i)[j] # NaN =>
            (centers[i] - span.val < OwnRow(i)[j] /\ OwnRow(i)[j] < centers[i] + span.val)

Ascending(row) ==
    \A j, k \in DOMAIN row : (j < k /\ row[j] # NaN /\ row[k] # NaN) => row[j] <= row[k]

\* the numbers of row increase strictly from left to right
StrictlyAscending(row) ==
    \A j, k \in DOMAIN row : (j < k /\ row[j] # NaN /\ row[k] # NaN) => row[j] < row[k]

\* the 0-based positions of the first and of the last number of row
FirstNumber(row) == CHOOSE k \in 0 .. Len(row) - 1 :
    row[k + 1] # NaN /\ \A j \in 1 .. k : row[j] = NaN
LastNumber(row) == CHOOSE k \in 0 .. Len(row) - 1 :
    row[k + 1] # NaN /\ \A j \in k + 2 .. Len(row) : row[j] = NaN

\* the first 0-based index of the smallest (largest) number of row
FirstMin(row) ==
    CHOOSE k \in 0 .. Len(row) - 1 :
        /\ row[k + 1] # NaN
        /\ \A j \in DOMAIN row : row[j] # NaN =>
              (row[k + 1] < row[j] \/ (row[k + 1] = row[j] /\ k + 1 <= j))
FirstMax(row) ==
    CHOOSE k \in 0 .. Len(row) - 1 :
        /\ row[k + 1] # NaN
        /\ \A j \in DOMAIN row : row[j] # NaN =>
              (row[k + 1] > row[j] \/ (row[k + 1] = row[j] /\ k + 1 <= j))

WindowComputed == call \in FitCalls /\ ilow # <<>> /\ SpanTruthy(span)

\* C7 as stated: with a span, ilow[i] and ihigh[i] are indices of dataset i's own
\* row nearest to centers[i] - span and centers[i] + span among its numbers; when
\* both targets lie outside the row's values the two indices are the two ends of
\* the row (of its numbers); for ascending x and span > 0, ilow[i] <= ihigh[i].
C7_WindowSaturatesAtEnds ==
    WindowComputed =>
        \A i \in 1 .. n :
            /\ IsNearest(OwnRow(i), ilow[i], centers[i] - span.val)
            /\ IsNearest(OwnRow(i), ihigh[i], centers[i] + span.val)
            /\ Saturated(i) =>
                  {ilow[i], ihigh[i]} = {FirstNumber(OwnRow(i)), LastNumber(OwnRow(i))}
            /\ (Ascending(OwnRow(i)) /\ span.val > 0) => ilow[i] <= ihigh[i]

\* C7 amended: as stated, but when both targets lie outside the row's values the
\* two indices are the first positions of the row's smallest and of its largest
\* number, which are the two ends of the row (of its numbers) when the row is
\* strictly ascending.
C7_WindowNearest ==
    WindowComputed =>
        \A i \in 1 .. n :
            /\ IsNearest(OwnRow(i), ilow[i], centers[i] - span.val)
            /\ IsNearest(OwnRow(i), ihigh[i], centers[i] + span.val)
            /\ Saturated(i) =>
                  /\ ilow[i] = FirstMin(OwnRow(i))
                  /\ ihigh[i] = FirstMax(OwnRow(i))
                  /\ StrictlyAscending(OwnRow(i)) =>
                        /\ ilow[i] = FirstNumber(OwnRow(i))
                        /\ ihigh[i] = LastNumber(OwnRow(i))
            /\ (Ascending(OwnRow(i)) /\ span.val > 0) => ilow[i] <= ihigh[i]

C7_Witness ==
    /\ WindowComputed
    /\ n > 1
    /\ OwnRow(1) # OwnRow(2)
    /\ Saturated(2)
    /\ ~Ascending(OwnRow(2))
    /\ ilow[2] \notin {0, m - 1}
    /\ ilow[2] = FirstMin(OwnRow(2))

\* C8: get_subset on data with a 1-D z and two bounds ends in a not-implemented
\* error and returns nothing; bounds of a length other than twice the number of
\* dimensions of z end in a ValueError before any slicing.
C8_NotImplementedFor1D ==
    (call = "get_subset" /\ pc # "start") =>
        /\ (z.ndim = 1 /\ Len(bounds) = 2) =>
              (pc = "error" /\ err = "NotImplementedError" /\ subset = <<>>)
        /\ Len(bounds) # 2 * z.ndim =>
              (pc = "error" /\ err = "ValueError" /\ subset = <<>>)

\* C9: for each model and role the two paths use the same initial value and the
\* same lower and upper bound: what the per-dataset path handed to curve_fit is what
\* the joint path would build for the same dataset, and conversely.
C9_SameBoxOnBothPaths ==
    Returned =>
        \A i \in 1 .. n : \A k \in 1 .. 5 :
            LET r == df.columns[k]
            IN  IF JointPath
                THEN /\ fit_params[i][r].min = Guess(i).lo[k]
                     /\ fit_params[i][r].max = Guess(i).hi[k]
                ELSE /\ guess[i].p0[k] = Group(i)[r].value
                     /\ guess[i].lo[k] = Group(i)[r].min
                     /\ guess[i].hi[k] = Group(i)[r].max

InputsKept ==
    call \in FitCalls => (x' = x /\ z' = z /\ centers' = centers /\ widths' = widths)

\* C10: a call of a fit function leaves the caller's x, z, centers and widths as
\* they were, in shape and contents.
C10_InputsOnlyRead == [][InputsKept]_vars

====
